---- MODULE Spec2Model ----
(***************************************************************************)
(* Model of the iterator plugin node (src/src/nodes/IteratorPluginNode.ts): *)
(* process() validates a batch, runs one task per item through a PQueue    *)
(* with bounded concurrency, memoises results in a per-node cache entry    *)
(* and aggregates the per-item outputs into one batch output.              *)
(***************************************************************************)
EXTENDS Integers, Sequences, FiniteSets, TLC

(***************************************************************************)
(* Bounds of the model                                                     *)
(***************************************************************************)
MaxBatch == 3      \* longest input batch
MaxBatchConc == 2  \* longest input batch of two overlapping invocations
MaxBatchRerun == 2 \* longest input batch when invocations are repeated
MaxRuns == 2       \* invocations of process() per slot
MaxTicks == 1      \* clock advances (each of TickMs milliseconds)
TickMs == 1800000  \* one clock advance: 30 minutes in milliseconds

Invs == {1, 2}     \* slots for invocations of process() that may overlap
NodeIds == {"n1"}
Refs == 1 .. 3     \* identities of cache-entry objects
NoRef == 0

(***************************************************************************)
(* Values                                                                  *)
(***************************************************************************)
FieldNames == {"a", "b"}
KeyOrder == <<"a", "b">>          \* Object.keys order of an item
Absent == "absent"
TaggedVals == {"ok1", "ok2"}      \* values accepted by isAnyDataValue
RawVals == {"raw1", "raw2"}       \* values rejected by isAnyDataValue
\* an item: a bare field mapping, an {type:"object", value: mapping} wrapper,
\* or something that is not an object at all
Bare(m) == [type |-> "bare", value |-> m]
Wrapped(m) == [type |-> "object", value |-> m]
NonObject == [type |-> "number", value |-> [f \in FieldNames |-> Absent]]

MapA == [f \in FieldNames |-> "ok1"]
MapB == [f \in FieldNames |-> IF f = "a" THEN "ok2" ELSE "ok1"]
MapMissA == [f \in FieldNames |-> IF f = "a" THEN Absent ELSE "ok1"]
MapMissB == [f \in FieldNames |-> IF f = "b" THEN Absent ELSE "ok1"]
MapRawB == [f \in FieldNames |-> IF f = "b" THEN "raw1" ELSE "ok1"]
ItemsMain == {Bare(MapA), Bare(MapB), Bare(MapMissA), Bare(MapMissB), Bare(MapRawB), NonObject}

SeqsUpTo(S, n) == UNION {[1 .. k -> S] : k \in 1 .. n}

Variants == {"v1", "v2", "circ"}  \* what the subgraph may return; "circ" is not JSON-serialisable
Overrides == {<< >>, <<0>>, <<2>>, <<3>>}  \* the chunkSize input port (<< >>: not connected)
Defaults == {1}                   \* data.chunkSize

CFE == [type |-> "control-flow-excluded"]
NoError == [type |-> "undefined"]
NoResult == [outputs |-> [type |-> "none"], error |-> [type |-> "undefined"]]
NoSnap == [none |-> TRUE]

VARIABLES now, graph, storage, heap,
          pc, node, hasCache, chunkSize, batch, snap, ref, abortIteration,
          tasks, pending, outputs, runs, prev, invalidated,
          signalled, given, commits, lastCommit

vars == <<now, graph, storage, heap, pc, node, hasCache, chunkSize, batch, snap, ref, abortIteration, tasks, pending, outputs, runs, prev, invalidated, signalled, given, commits, lastCommit>>

(***************************************************************************)
(* Pure helpers                                                            *)
(***************************************************************************)
EmptyMap == [x \in {} |-> 0]
MapSet(m, k, v) == [x \in (DOMAIN m) \cup {k} |-> IF x = k THEN v ELSE m[x]]

\* sha256: a collision-free digest, never the value itself
sha256(input) == [sha |-> input]

\* isObjectDataValue
isObjectDataValue(item) == item.type = "object"

\* isAnyDataValue
isAnyDataValue(v) == v \in TaggedVals

\* itemDataValue of a task: the item itself when it is an object wrapper,
\* otherwise the item wrapped
ItemDataValue(item) == IF isObjectDataValue(item) THEN item ELSE Wrapped(item.value)

\* cacheKey = sha256(JSON.stringify({graph, inputs: itemDataValue}))
CacheKey(item) == sha256(ItemDataValue(item))

\* compressObject: JSON.stringify throws on a non-serialisable value
EncodeError == [type |-> "EncodeError"]
DecodeError == [type |-> "DecodeError"]
Serialisable(obj) == ~(obj.outputs.type = "object" /\ obj.outputs.v = "circ")
compressObject(obj) ==
  IF Serialisable(obj) THEN [lz |-> obj] ELSE EncodeError

\* decompressObject: throws when LZString.decompressFromUTF16 returns nothing
\* (decompresses: whether the library call yields the JSON text)
decompressObject(compressedData, decompresses) ==
  IF decompresses THEN compressedData.lz ELSE DecodeError

\* a resolution without the replacement of non-positive values
ResolveChunkSizeNoClamp(override, default) ==
  IF override = << >> THEN default ELSE override[1]

\* chunkSize = override ?? data.chunkSize; then non-positive becomes 1
ResolveChunkSize(override, default) ==
  LET c == IF override = << >> THEN default ELSE override[1]
  IN IF c > 0 THEN c ELSE 1

(***************************************************************************)
(* validateInputItem and the .some() loop over the batch                   *)
(***************************************************************************)
ExpectedKeys == KeyOrder

SeqToSet(s) == {s[k] : k \in DOMAIN s}

ItemKeys(item) == {f \in FieldNames : item.value[f] # Absent}

\* index of the first key (in key order) whose value is not a data value, or 0
FirstInvalid(item) ==
  LET bad == {k \in DOMAIN KeyOrder :
                /\ item.value[KeyOrder[k]] # Absent
                /\ ~isAnyDataValue(item.value[KeyOrder[k]])}
  IN IF bad = {} THEN 0 ELSE CHOOSE k \in bad : \A l \in bad : k <= l

\* validateInputItem that accepts values that are not data values
validateInputItemLax(item, missingKeys, notDataValue) ==
  LET miss == {k \in SeqToSet(ExpectedKeys) : k \notin ItemKeys(item)}
  IN IF miss # {}
     THEN <<TRUE, missingKeys \cup miss, notDataValue>>
     ELSE <<FALSE, missingKeys, notDataValue>>

\* validateInputItem: <<returned flag, missingKeys, notDataValue>>
validateInputItem(item, missingKeys, notDataValue) ==
  LET miss == {k \in SeqToSet(ExpectedKeys) : k \notin ItemKeys(item)}
      fi == FirstInvalid(item)
  IN IF miss # {}
     THEN <<TRUE, missingKeys \cup miss, notDataValue>>
     ELSE IF fi # 0
          THEN <<TRUE, missingKeys, notDataValue \cup {item.value[KeyOrder[fi]]}>>
          ELSE <<FALSE, missingKeys, notDataValue>>

\* iteratorInputs.some(s => validateInputItem(...)): stops at the first true
RECURSIVE SomeInvalid(_, _, _, _)
SomeInvalid(b, k, missingKeys, notDataValue) ==
  IF k > Len(b) THEN <<FALSE, missingKeys, notDataValue>>
  ELSE LET r == validateInputItem(b[k], missingKeys, notDataValue)
       IN IF r[1] THEN r ELSE SomeInvalid(b, k + 1, r[2], r[3])

ValidateBatch(b) == SomeInvalid(b, 1, {}, {})

(***************************************************************************)
(* Task records and outputs                                                *)
(***************************************************************************)
\* itemOutput of a task: the outputs port and the error port
Skipped == [outputs |-> CFE, error |-> NoError]
FailedOut(index, item, msg) ==
  [outputs |-> CFE,
   error |-> [type |-> "string", index |-> index, inputs |-> item, message |-> msg]]
SubgraphResult(item, v) ==
  [outputs |-> [type |-> "object", of |-> ItemDataValue(item), v |-> v], error |-> NoError]

\* an output test that misses the skipped items
IsCFEFailedOnly(o) == o.outputs = CFE /\ o.error # NoError

IsCFE(o) == o.outputs = CFE
IsSkipped(o) == o.outputs = CFE /\ o.error = NoError
IsFailed(o) == o.outputs = CFE /\ o.error # NoError
IsSuccess(o) == o.outputs.type = "object"

\* pc of a task: queued, hashing (awaiting sha256 before the lookup),
\* invoking (awaiting impl.process), storing (awaiting sha256 before the
\* store), returned (the task function returned, the queue slot is still
\* taken), done (the queue released the slot)
\* invoked, hit, stored and atFail are history fields: whether the task called
\* the subgraph, what its lookup found, whether it wrote the cache, and where
\* the task was ("queued", "inflight") when a task first recorded a failure;
\* storedAt: the rank of its cache write among the writes of the invocation
\* (0: none)
QueuedTask == [pc |-> "queued", res |-> NoResult, out |-> NoResult,
               invoked |-> FALSE, hit |-> "none", stored |-> FALSE, atFail |-> "none",
               storedAt |-> 0]

\* the Outputs of process(): the iteratorOutputs port, the error port, and
\* the return statement that produced them
NoPort == [type |-> "none"]
NoOutputs == [site |-> "none", iteratorOutputs |-> NoPort, error |-> NoPort]

NoPrev == [set |-> FALSE]
\* createdAt is a history field: the clock when the entry object was built
NoEntry == [cache |-> EmptyMap, expiryTimestamp |-> 0, graphSnapshot |-> NoSnap,
            createdAt |-> 0]
NoGiven == [override |-> << >>, default |-> 1]
NoCommit == [by |-> 0, ref |-> NoRef]

Init ==
  /\ now = 0
  /\ graph = 1
  /\ storage = [n \in NodeIds |-> NoRef]
  /\ heap = [r \in Refs |-> NoEntry]
  /\ pc = [i \in Invs |-> "idle"]
  /\ node = [i \in Invs |-> "n1"]
  /\ hasCache = [i \in Invs |-> FALSE]
  /\ chunkSize = [i \in Invs |-> 1]
  /\ batch = [i \in Invs |-> << >>]
  /\ snap = [i \in Invs |-> NoSnap]
  /\ ref = [i \in Invs |-> NoRef]
  /\ abortIteration = [i \in Invs |-> FALSE]
  /\ tasks = [i \in Invs |-> << >>]
  /\ pending = [i \in Invs |-> 0]
  /\ outputs = [i \in Invs |-> NoOutputs]
  /\ runs = [i \in Invs |-> 0]
  /\ prev = [i \in Invs |-> NoPrev]
  /\ invalidated = [i \in Invs |-> FALSE]
  /\ signalled = [i \in Invs |-> FALSE]
  /\ given = [i \in Invs |-> NoGiven]
  /\ commits = [i \in Invs |-> 0]
  /\ lastCommit = [n \in NodeIds |-> NoCommit]

(***************************************************************************)
(* Cache-entry objects: storage maps a node id to an object identity, a    *)
(* running invocation holds the identity in its cacheStorage constant      *)
(***************************************************************************)
TTL == 3600   \* 1 * 60 * 60

Referenced(st, rf) == {st[n] : n \in NodeIds} \cup {rf[i] : i \in Invs}

\* an object identity nothing refers to
FreshRef == CHOOSE r \in Refs : r \notin Referenced(storage, ref) /\
                                 \A q \in Refs : q \notin Referenced(storage, ref) => r <= q

\* unreferenced objects are garbage
Collect(h, st, rf) == [r \in Refs |-> IF r \in Referenced(st, rf) THEN h[r] ELSE NoEntry]

\* an invalidation that records the new snapshot and keeps the entries
invalideCacheKeepsEntries(cacheStorage, graphSnapshot) ==
  [cacheStorage EXCEPT !.graphSnapshot = graphSnapshot]

\* invalideCacheIfChanges
invalideCacheIfChanges(cacheStorage, graphSnapshot) ==
  IF cacheStorage.graphSnapshot # graphSnapshot
  THEN [cacheStorage EXCEPT !.cache = EmptyMap, !.graphSnapshot = graphSnapshot]
  ELSE cacheStorage

\* cleanExpiredCache
cleanExpiredCache(st, h, t) ==
  [n \in NodeIds |-> IF st[n] # NoRef /\ h[st[n]].expiryTimestamp < t THEN NoRef ELSE st[n]]

(***************************************************************************)
(* The queue                                                               *)
(***************************************************************************)
\* a queue that starts one job too many
CanStartLoose(pendingCount, concurrency) == pendingCount <= concurrency

\* PQueue starts a job while fewer than `concurrency` are pending
CanStart(pendingCount, concurrency) == pendingCount < concurrency

\* a task head without the abort check
BeginIgnoreAbort(t, aborted, cached) ==
  IF cached THEN [t EXCEPT !.pc = "hashing"]
  ELSE [t EXCEPT !.pc = "invoking", !.invoked = TRUE]

\* the synchronous head of a task: the abort check and what follows it up to
\* the first await
Begin(t, aborted, cached) ==
  IF aborted THEN [t EXCEPT !.pc = "returned", !.out = Skipped]
  ELSE IF cached THEN [t EXCEPT !.pc = "hashing"]
  ELSE [t EXCEPT !.pc = "invoking", !.invoked = TRUE]

Running(i) == {j \in DOMAIN tasks[i] : tasks[i][j].pc \in {"hashing", "invoking", "storing"}}
Queued(i) == {j \in DOMAIN tasks[i] : tasks[i][j].pc = "queued"}

\* a failure is recorded by task j: history of where the other tasks were
MarkAtFail(ts, j) ==
  [k \in DOMAIN ts |->
     IF k = j \/ ts[k].atFail # "none" THEN ts[k]
     ELSE IF ts[k].pc \in {"hashing", "invoking", "storing"}
          THEN [ts[k] EXCEPT !.atFail = "inflight"]
          ELSE IF ts[k].pc = "queued" THEN [ts[k] EXCEPT !.atFail = "queued"]
               ELSE ts[k]]

(***************************************************************************)
(* process(): entry up to the await of the graph snapshot (lines 283-330)  *)
(***************************************************************************)
\* history: the last invocation of the slot, kept when it ran with the cache
\* and every item succeeded
Summary(i) ==
  IF hasCache[i] /\ outputs[i].site = "array"
  THEN [set |-> TRUE, batch |-> batch[i], snap |-> snap[i], node |-> node[i],
        outputs |-> outputs[i]]
  ELSE NoPrev

\* n: data.nodeId (always set here, so hasCache is data.hasCache), hc:
\* data.hasCache, ov and df: the chunkSize port and data.chunkSize, b: the
\* batch, d: the time that passed since the clock was last read
Invoke(i, n, hc, ov, df, b, d) ==
  /\ pc[i] \in {"idle", "done"}
  /\ now + d <= MaxTicks * TickMs
  /\ now' = now + d
  /\ runs' = [runs EXCEPT ![i] = @ + 1]
  /\ prev' = [prev EXCEPT ![i] = IF pc[i] = "done" THEN Summary(i) ELSE @]
  /\ abortIteration' = [abortIteration EXCEPT ![i] = FALSE]
  /\ node' = [node EXCEPT ![i] = n]
  /\ hasCache' = [hasCache EXCEPT ![i] = hc]
  /\ chunkSize' = [chunkSize EXCEPT ![i] = ResolveChunkSize(ov, df)]
  /\ batch' = [batch EXCEPT ![i] = b]
  /\ tasks' = [tasks EXCEPT ![i] = << >>]
  /\ pending' = [pending EXCEPT ![i] = 0]
  /\ IF \E k \in DOMAIN b : b[k].type = "number"
     THEN /\ pc' = [pc EXCEPT ![i] = "done"]
          /\ snap' = [snap EXCEPT ![i] = NoSnap]
          /\ outputs' = [outputs EXCEPT ![i] =
                           [site |-> "notObjects", iteratorOutputs |-> CFE,
                            error |-> [type |-> "string", value |-> "notObjects"]]]
     ELSE /\ pc' = [pc EXCEPT ![i] = "snap"]
          /\ snap' = [snap EXCEPT ![i] = sha256(graph)]
          /\ outputs' = [outputs EXCEPT ![i] = NoOutputs]
  /\ invalidated' = [invalidated EXCEPT ![i] = FALSE]
  /\ signalled' = [signalled EXCEPT ![i] = FALSE]
  /\ given' = [given EXCEPT ![i] = [override |-> ov, default |-> df]]
  /\ commits' = [commits EXCEPT ![i] = 0]
  /\ UNCHANGED <<graph, storage, heap, ref, lastCommit>>

(***************************************************************************)
(* process(): lines 331-374, the cache entry and the validation            *)
(***************************************************************************)
\* cacheStorage = storage.get(nodeId) ?? a new entry
EntryRef(i) == IF storage[node[i]] # NoRef THEN storage[node[i]] ELSE FreshRef
EntryObj(i) ==
  IF storage[node[i]] # NoRef THEN heap[storage[node[i]]]
  ELSE [cache |-> EmptyMap, expiryTimestamp |-> now + TTL, graphSnapshot |-> snap[i],
        createdAt |-> now]

Reject(i) ==
  /\ pc[i] = "snap"
  /\ LET v == ValidateBatch(batch[i])
         h == [heap EXCEPT ![EntryRef(i)] = invalideCacheIfChanges(EntryObj(i), snap[i])]
     IN /\ v[1]
        /\ outputs' = [outputs EXCEPT ![i] =
                         [site |-> "validation", iteratorOutputs |-> CFE,
                          error |-> [type |-> "string",
                                     value |-> [missingKeys |-> v[2],
                                                notDataValue |-> v[3]]]]]
        /\ heap' = Collect(h, storage, ref)
  /\ pc' = [pc EXCEPT ![i] = "done"]
  /\ invalidated' = [invalidated EXCEPT ![i] = EntryObj(i).graphSnapshot # snap[i]]
  /\ UNCHANGED <<now, graph, storage, node, hasCache, chunkSize, batch, snap, ref,
                 abortIteration, tasks, pending, runs, prev,
                 signalled, given, commits, lastCommit>>

(***************************************************************************)
(* process(): lines 376-456, one queue.add per item; the queue starts the  *)
(* first `concurrency` tasks at once                                       *)
(***************************************************************************)
Dispatch(i) ==
  /\ pc[i] = "snap"
  /\ ~ValidateBatch(batch[i])[1]
  /\ LET r == EntryRef(i)
         n == Len(batch[i])
         started == {k \in 1 .. n : CanStart(k - 1, chunkSize[i])}
     IN /\ ref' = [ref EXCEPT ![i] = r]
        /\ heap' = [heap EXCEPT ![r] = invalideCacheIfChanges(EntryObj(i), snap[i])]
        /\ tasks' = [tasks EXCEPT ![i] =
                       [k \in 1 .. n |->
                          IF k \in started
                          THEN Begin(QueuedTask, abortIteration[i], hasCache[i])
                          ELSE QueuedTask]]
        /\ pending' = [pending EXCEPT ![i] = Cardinality(started)]
  /\ pc' = [pc EXCEPT ![i] = "await"]
  /\ invalidated' = [invalidated EXCEPT ![i] = EntryObj(i).graphSnapshot # snap[i]]
  /\ UNCHANGED <<now, graph, storage, node, hasCache, chunkSize, batch, snap,
                 abortIteration, outputs, runs, prev,
                 signalled, given, commits, lastCommit>>

(***************************************************************************)
(* The task body (lines 379-455), one action per await                     *)
(***************************************************************************)
\* a catch block that flips the flag
CatchToggle(i, j, msg) ==
  /\ tasks' = [tasks EXCEPT ![i] =
                 [MarkAtFail(tasks[i], j) EXCEPT ![j] =
                    [@ EXCEPT !.pc = "returned",
                              !.out = FailedOut(j - 1, batch[i][j], msg),
                              !.hit = IF msg = "decode" THEN "undecodable" ELSE @]]]
  /\ abortIteration' = [abortIteration EXCEPT ![i] = ~@]

\* the catch block: a Failed output and the abort flag
Catch(i, j, msg) ==
  /\ tasks' = [tasks EXCEPT ![i] =
                 [MarkAtFail(tasks[i], j) EXCEPT ![j] =
                    [@ EXCEPT !.pc = "returned",
                              !.out = FailedOut(j - 1, batch[i][j], msg),
                              !.hit = IF msg = "decode" THEN "undecodable" ELSE @]]]
  /\ abortIteration' = [abortIteration EXCEPT ![i] = TRUE]

\* lines 404-417: the key is hashed, the cache is read
TaskLookup(i, j, decompresses) ==
  /\ pc[i] = "await"
  /\ j \in DOMAIN tasks[i]
  /\ tasks[i][j].pc = "hashing"
  /\ LET cacheKey == CacheKey(batch[i][j])
         cache == heap[ref[i]].cache
     IN IF cacheKey \in DOMAIN cache
        THEN LET decoded == decompressObject(cache[cacheKey], decompresses)
                 fresh == \E k \in DOMAIN tasks[i] :
                             tasks[i][k].stored /\ CacheKey(batch[i][k]) = cacheKey
             IN IF decoded = DecodeError
                THEN Catch(i, j, "decode")
                ELSE /\ tasks' = [tasks EXCEPT ![i][j] =
                                   [@ EXCEPT !.pc = "returned", !.out = decoded,
                                             !.hit = IF fresh THEN "fresh" ELSE "stale"]]
                     /\ UNCHANGED abortIteration
        ELSE /\ tasks' = [tasks EXCEPT ![i][j] =
                            [@ EXCEPT !.pc = "invoking", !.invoked = TRUE]]
             /\ UNCHANGED abortIteration
  /\ UNCHANGED <<now, graph, storage, heap, pc, node, hasCache, chunkSize, batch, snap,
                 ref, pending, outputs, runs, prev, invalidated,
                 signalled, given, commits, lastCommit>>

\* line 418: impl.process settles, with a result or with an error
TaskInvokeDone(i, j, v) ==
  /\ pc[i] = "await"
  /\ j \in DOMAIN tasks[i]
  /\ tasks[i][j].pc = "invoking"
  /\ IF v = "throw"
     THEN Catch(i, j, "subgraph")
     ELSE /\ tasks' = [tasks EXCEPT ![i][j] =
                         IF hasCache[i]
                         THEN [@ EXCEPT !.pc = "storing",
                                        !.res = SubgraphResult(batch[i][j], v)]
                         ELSE [@ EXCEPT !.pc = "returned",
                                        !.out = SubgraphResult(batch[i][j], v)]]
          /\ UNCHANGED abortIteration
  /\ UNCHANGED <<now, graph, storage, heap, pc, node, hasCache, chunkSize, batch, snap,
                 ref, pending, outputs, runs, prev, invalidated,
                 signalled, given, commits, lastCommit>>

\* lines 420-431: the key is hashed again, the result is compressed and stored
TaskStore(i, j) ==
  /\ pc[i] = "await"
  /\ j \in DOMAIN tasks[i]
  /\ tasks[i][j].pc = "storing"
  /\ LET compressed == compressObject(tasks[i][j].res)
     IN IF compressed = EncodeError
        THEN /\ Catch(i, j, "encode")
             /\ UNCHANGED heap
        ELSE /\ heap' = [heap EXCEPT ![ref[i]].cache =
                           MapSet(@, CacheKey(batch[i][j]), compressed)]
             /\ tasks' = [tasks EXCEPT ![i][j] =
                            [@ EXCEPT !.pc = "returned", !.out = tasks[i][j].res,
                                      !.stored = TRUE,
                                      !.storedAt = 1 + Cardinality(
                                         {k \in DOMAIN tasks[i] : tasks[i][k].stored})]]
             /\ UNCHANGED abortIteration
  /\ UNCHANGED <<now, graph, storage, pc, node, hasCache, chunkSize, batch, snap,
                 ref, pending, outputs, runs, prev, invalidated,
                 signalled, given, commits, lastCommit>>

\* a queue that takes the job added last
NextJobLast(q) == CHOOSE k \in q : \A l \in q : k >= l

\* PQueue with equal priorities takes the job added first
NextJob(q) == CHOOSE k \in q : \A l \in q : k <= l

\* a queue that frees the slot and never takes the next job
TaskReleaseNoNext(i, j) ==
  /\ pc[i] = "await"
  /\ j \in DOMAIN tasks[i]
  /\ tasks[i][j].pc = "returned"
  /\ tasks' = [tasks EXCEPT ![i][j].pc = "done"]
  /\ pending' = [pending EXCEPT ![i] = @ - 1]
  /\ UNCHANGED <<now, graph, storage, heap, pc, node, hasCache, chunkSize, batch, snap,
                 ref, abortIteration, outputs, runs, prev, invalidated,
                 signalled, given, commits, lastCommit>>

\* the queue after a task function returned: the slot is released and the
\* next queued task, if any, is started
TaskRelease(i, j) ==
  /\ pc[i] = "await"
  /\ j \in DOMAIN tasks[i]
  /\ tasks[i][j].pc = "returned"
  /\ LET released == [tasks[i] EXCEPT ![j].pc = "done"]
         q == Queued(i)
     IN IF q # {} /\ CanStart(pending[i] - 1, chunkSize[i])
        THEN LET nxt == NextJob(q)
             IN /\ tasks' = [tasks EXCEPT ![i] =
                               [released EXCEPT ![nxt] =
                                  Begin(@, abortIteration[i], hasCache[i])]]
                /\ UNCHANGED pending
        ELSE /\ tasks' = [tasks EXCEPT ![i] = released]
             /\ pending' = [pending EXCEPT ![i] = @ - 1]
  /\ UNCHANGED <<now, graph, storage, heap, pc, node, hasCache, chunkSize, batch, snap,
                 ref, abortIteration, outputs, runs, prev, invalidated,
                 signalled, given, commits, lastCommit>>

\* a listener that records nothing
ExternalAbortNoLatch(i) ==
  /\ pc[i] \in {"snap", "await"}
  /\ ~signalled[i]
  /\ signalled' = [signalled EXCEPT ![i] = TRUE]
  /\ UNCHANGED <<now, graph, storage, heap, pc, node, hasCache, chunkSize, batch, snap,
                 ref, abortIteration, tasks, pending, outputs, runs, prev, invalidated,
                 given, commits, lastCommit>>

\* lines 285-288: the listener on context.signal; an AbortSignal fires its
\* abort event once
ExternalAbort(i) ==
  /\ pc[i] \in {"snap", "await"}
  /\ ~signalled[i]
  /\ signalled' = [signalled EXCEPT ![i] = TRUE]
  /\ abortIteration' = [abortIteration EXCEPT ![i] = TRUE]
  /\ UNCHANGED <<now, graph, storage, heap, pc, node, hasCache, chunkSize, batch, snap,
                 ref, tasks, pending, outputs, runs, prev, invalidated,
                 given, commits, lastCommit>>

\* the project's graph is edited (read by process at lines 327-330 only)
Snapshots == {1, 2}
MutateGraph(g) ==
  /\ g # graph
  /\ \A i \in Invs : pc[i] \in {"idle", "done"}
  /\ graph' = g
  /\ UNCHANGED <<now, storage, heap, pc, node, hasCache, chunkSize, batch, snap, ref,
                 abortIteration, tasks, pending, outputs, runs, prev, invalidated,
                 signalled, given, commits, lastCommit>>

(***************************************************************************)
(* process(): lines 458-503, after Promise.all and queue.onIdle            *)
(***************************************************************************)
IteratorOutputs(i) == [j \in DOMAIN tasks[i] |-> tasks[i][j].out]

\* lines 482-492: filter the excluded outputs, then label by position in
\* the filtered array
ErrorEntries(outs) ==
  LET failed == SelectSeq(outs, IsCFE)
  IN [k \in DOMAIN failed |-> [ItemIndex |-> k - 1, message |-> failed[k].error]]

\* a wait that ends with the first settled task
AllSettledAny(ts) == \E j \in DOMAIN ts : ts[j].pc = "done"

\* Promise.all(addToQueue) and queue.onIdle() have resolved
AllSettled(ts) == \A j \in DOMAIN ts : ts[j].pc = "done"

\* d: the time that passed since the clock was last read (Date.now() of
\* cleanExpiredCache)
\* a commit that does not look at hasCache
CommittedAlways(i) == [storage EXCEPT ![node[i]] = ref[i]]

\* lines 462-467: storage.set(nodeId, cacheStorage) under hasCache
Committed(i) == IF hasCache[i] THEN [storage EXCEPT ![node[i]] = ref[i]] ELSE storage

Aggregate(i, d) ==
  /\ pc[i] = "await"
  /\ AllSettled(tasks[i])
  /\ now + d <= MaxTicks * TickMs
  /\ now' = now + d
  /\ commits' = [commits EXCEPT ![i] = IF hasCache[i] THEN @ + 1 ELSE @]
  /\ lastCommit' = IF hasCache[i]
                   THEN [lastCommit EXCEPT ![node[i]] = [by |-> i, ref |-> ref[i]]]
                   ELSE lastCommit
  /\ LET committed == Committed(i)
         swept == IF hasCache[i] THEN cleanExpiredCache(committed, heap, now') ELSE committed
         rf == [ref EXCEPT ![i] = NoRef]
         outs == IteratorOutputs(i)
     IN /\ storage' = swept
        /\ ref' = rf
        /\ heap' = Collect(heap, swept, rf)
        /\ outputs' = [outputs EXCEPT ![i] =
                         IF \E k \in DOMAIN outs : IsCFE(outs[k])
                         THEN [site |-> "batchError", iteratorOutputs |-> CFE,
                               error |-> [type |-> "string",
                                          value |-> ErrorEntries(outs)]]
                         ELSE [site |-> "array",
                               iteratorOutputs |-> [type |-> "object[]", value |-> outs],
                               error |-> NoPort]]
  /\ pc' = [pc EXCEPT ![i] = "done"]
  /\ UNCHANGED <<graph, node, hasCache, chunkSize, batch, snap, abortIteration, tasks,
                 pending, runs, prev, invalidated, signalled, given>>

(***************************************************************************)
(* Specifications                                                          *)
(***************************************************************************)
Delays == {0, TickMs}
Outcomes == Variants \cup {"throw"}
BatchesMain == SeqsUpTo(ItemsMain, MaxBatch)

\* one invocation
Next ==
  \/ /\ runs[1] = 0
     /\ \E n \in NodeIds, hc \in BOOLEAN, ov \in Overrides, df \in Defaults,
           b \in BatchesMain : Invoke(1, n, hc, ov, df, b, 0)
  \/ Reject(1)
  \/ Dispatch(1)
  \/ \E j \in 1 .. MaxBatch : TaskLookup(1, j, TRUE)
  \/ \E j \in 1 .. MaxBatch, v \in Outcomes : TaskInvokeDone(1, j, v)
  \/ \E j \in 1 .. MaxBatch : TaskStore(1, j)
  \/ \E j \in 1 .. MaxBatch : TaskRelease(1, j)
  \/ ExternalAbort(1)
  \/ \E d \in Delays : Aggregate(1, d)

Spec == Init /\ [][Next]_vars

\* repeated invocations of one node, one after the other, on valid batches,
\* with edits of the graph and time passing in between
ItemsRerun == {Bare(MapA), Wrapped(MapA), Bare(MapB)}
BatchesRerun == SeqsUpTo(ItemsRerun, MaxBatchRerun)
OverridesRerun == {<< >>, <<2>>}
OutcomesRerun == {"v1", "throw"}

NextRerun ==
  \/ /\ runs[1] < MaxRuns
     /\ \E n \in NodeIds, hc \in BOOLEAN, ov \in OverridesRerun, df \in Defaults,
           b \in BatchesRerun, d \in Delays : Invoke(1, n, hc, ov, df, b, d)
  \/ Dispatch(1)
  \/ \E j \in 1 .. MaxBatchRerun : TaskLookup(1, j, TRUE)
  \/ \E j \in 1 .. MaxBatchRerun, v \in OutcomesRerun : TaskInvokeDone(1, j, v)
  \/ \E j \in 1 .. MaxBatchRerun : TaskStore(1, j)
  \/ \E j \in 1 .. MaxBatchRerun : TaskRelease(1, j)
  \/ \E g \in Snapshots : MutateGraph(g)
  \/ \E d \in Delays : Aggregate(1, d)

SpecRerun == Init /\ [][NextRerun]_vars

\* one invocation with the cache in which decompressing a stored value may fail
ItemsFault == {Bare(MapA), Bare(MapB)}
BatchesFault == SeqsUpTo(ItemsFault, MaxBatch)

NextFault ==
  \/ /\ runs[1] = 0
     /\ \E n \in NodeIds, ov \in Overrides, df \in Defaults, b \in BatchesFault :
           Invoke(1, n, TRUE, ov, df, b, 0)
  \/ Dispatch(1)
  \/ \E j \in 1 .. MaxBatch, ok \in BOOLEAN : TaskLookup(1, j, ok)
  \/ \E j \in 1 .. MaxBatch, v \in OutcomesRerun : TaskInvokeDone(1, j, v)
  \/ \E j \in 1 .. MaxBatch : TaskStore(1, j)
  \/ \E j \in 1 .. MaxBatch : TaskRelease(1, j)
  \/ \E d \in Delays : Aggregate(1, d)

SpecFault == Init /\ [][NextFault]_vars

\* one invocation without the cache over every combination of the chunkSize
\* port and data.chunkSize, negative and zero included
OverridesAll == {<< >>, <<-1>>, <<0>>, <<1>>, <<2>>, <<3>>}
DefaultsAll == {-1, 0, 1, 2}
ItemsResolve == {Bare(MapA)}
BatchesResolve == SeqsUpTo(ItemsResolve, MaxBatch)

NextResolve ==
  \/ /\ runs[1] = 0
     /\ \E n \in NodeIds, ov \in OverridesAll, df \in DefaultsAll, b \in BatchesResolve :
           Invoke(1, n, FALSE, ov, df, b, 0)
  \/ Dispatch(1)
  \/ \E j \in 1 .. MaxBatch : TaskInvokeDone(1, j, "v1")
  \/ \E j \in 1 .. MaxBatch : TaskRelease(1, j)
  \/ Aggregate(1, 0)

SpecResolve == Init /\ [][NextResolve]_vars

\* one invocation on a valid batch in which every continuation that is ready
\* is run in the end: the event loop runs every microtask, impl.process
\* settles, the queue takes the next job when one returns
OverridesLive == {<< >>, <<2>>, <<3>>}

NextLive ==
  \/ /\ runs[1] = 0
     /\ \E n \in NodeIds, hc \in BOOLEAN, ov \in OverridesLive, df \in Defaults,
           b \in BatchesFault : Invoke(1, n, hc, ov, df, b, 0)
  \/ Dispatch(1)
  \/ \E j \in 1 .. MaxBatch : TaskLookup(1, j, TRUE)
  \/ \E j \in 1 .. MaxBatch, v \in OutcomesRerun : TaskInvokeDone(1, j, v)
  \/ \E j \in 1 .. MaxBatch : TaskStore(1, j)
  \/ \E j \in 1 .. MaxBatch : TaskRelease(1, j)
  \/ ExternalAbort(1)
  \/ Aggregate(1, 0)

Fairness ==
  /\ WF_vars(Dispatch(1))
  /\ WF_vars(\E j \in 1 .. MaxBatch : TaskLookup(1, j, TRUE))
  /\ WF_vars(\E j \in 1 .. MaxBatch, v \in OutcomesRerun : TaskInvokeDone(1, j, v))
  /\ WF_vars(\E j \in 1 .. MaxBatch : TaskStore(1, j))
  /\ WF_vars(\E j \in 1 .. MaxBatch : TaskRelease(1, j))
  /\ WF_vars(Aggregate(1, 0))

SpecLive == Init /\ [][NextLive]_vars /\ Fairness

\* two invocations of the same node with the cache, the second entered while
\* the first is still running; their awaits interleave
BatchesConc == SeqsUpTo(ItemsFault, MaxBatchConc)

NextConc ==
  \/ /\ runs[1] = 0
     /\ \E n \in NodeIds, b \in BatchesConc : Invoke(1, n, TRUE, << >>, 1, b, 0)
  \/ /\ runs[2] = 0
     /\ pc[1] \in {"snap", "await"}
     /\ \E n \in NodeIds, b \in BatchesConc : Invoke(2, n, TRUE, << >>, 1, b, 0)
  \/ \E i \in Invs : Dispatch(i)
  \/ \E i \in Invs, j \in 1 .. MaxBatchConc : TaskLookup(i, j, TRUE)
  \/ \E i \in Invs, j \in 1 .. MaxBatchConc, v \in OutcomesRerun : TaskInvokeDone(i, j, v)
  \/ \E i \in Invs, j \in 1 .. MaxBatchConc : TaskStore(i, j)
  \/ \E i \in Invs, j \in 1 .. MaxBatchConc : TaskRelease(i, j)
  \/ \E i \in Invs, d \in Delays : Aggregate(i, d)

SpecConc == Init /\ [][NextConc]_vars

(***************************************************************************)
(* Properties of one invocation                                            *)
(***************************************************************************)
Settled(i) == {j \in DOMAIN tasks[i] : tasks[i][j].pc \in {"returned", "done"}}
Aggregated(i) == pc[i] = "done" /\ outputs[i].site \in {"batchError", "array"}

\* C1: at most chunkSize item tasks have started and not yet produced an
\* outcome, whatever the relation of chunkSize to the batch size
C1_ConcurrencyBound ==
  \A i \in Invs :
    /\ Cardinality(Running(i)) <= chunkSize[i]
    /\ Cardinality({j \in DOMAIN tasks[i] : tasks[i][j].pc = "invoking"}) <= chunkSize[i]

C1_Witness ==
  /\ chunkSize[1] = 2
  /\ Cardinality({j \in DOMAIN tasks[1] : tasks[1][j].pc = "invoking"}) = 2
  /\ Queued(1) # {}

\* C2: when every item passed validation and the subgraph was invoked for
\* every item (or found in the cache) and never failed, the output is an
\* array as long as the batch whose element i is the result of item i
C2_OrderedOutput ==
  ( /\ pc[1] = "done"
    /\ outputs[1].site \in {"batchError", "array"}
    /\ \A j \in DOMAIN tasks[1] :
          /\ tasks[1][j].invoked \/ tasks[1][j].hit # "none"
          /\ ~(IsFailed(tasks[1][j].out) /\ tasks[1][j].out.error.message = "subgraph") )
  => /\ outputs[1].site = "array"
     /\ Len(outputs[1].iteratorOutputs.value) = Len(batch[1])
     /\ \A j \in DOMAIN batch[1] :
          outputs[1].iteratorOutputs.value[j].outputs.of = ItemDataValue(batch[1][j])

\* C3: a task that was still queued when a failure was recorded is skipped
\* without invoking the subgraph and lies after the failed item; a task in
\* flight at that moment ends with its own Success or Failed outcome
C3_AbortPropagation ==
  \A i \in Invs : \A j \in DOMAIN tasks[i] :
    LET t == tasks[i][j] IN
    /\ (t.atFail = "queued" /\ t.pc # "queued") =>
          /\ IsSkipped(t.out)
          /\ ~t.invoked /\ t.hit = "none" /\ ~t.stored
    /\ t.atFail = "queued" => \E k \in 1 .. j - 1 : IsFailed(tasks[i][k].out)
    /\ (t.atFail = "inflight" /\ j \in Settled(i)) =>
          \/ IsSuccess(t.out) /\ t.out.outputs.of = ItemDataValue(batch[i][j])
          \/ IsFailed(t.out) /\ t.out.error.index = j - 1

C3_Witness ==
  /\ pc[1] = "done"
  /\ \E j, k \in DOMAIN tasks[1] :
       /\ tasks[1][j].atFail = "queued" /\ IsSkipped(tasks[1][j].out)
       /\ tasks[1][k].atFail = "inflight" /\ IsSuccess(tasks[1][k].out)

\* what the batch is missing, over all items
AllMissing(b) == {f \in SeqToSet(ExpectedKeys) : \E k \in DOMAIN b : b[k].value[f] = Absent}
AllInvalid(b) == {b[k].value[f] : k \in DOMAIN b, f \in FieldNames} \cap RawVals
ItemInvalid(item) ==
  \/ \E f \in SeqToSet(ExpectedKeys) : item.value[f] = Absent
  \/ \E f \in FieldNames : item.value[f] \in RawVals

\* C6: a validation error reports every contract field absent from any item
\* and every value of any item that is not a tagged value
C6_ValidationUnion ==
  \A i \in Invs :
    outputs[i].site = "validation" =>
      /\ outputs[i].error.value.missingKeys = AllMissing(batch[i])
      /\ outputs[i].error.value.notDataValue = AllInvalid(batch[i])

\* C7: a batch with an invalid item ends in a batch error with the excluded
\* sentinel, and no task is ever created or started for it
C7_ValidationRejects ==
  \A i \in Invs :
    (pc[i] \in {"await", "done"} /\ \E k \in DOMAIN batch[i] : ItemInvalid(batch[i][k])) =>
      /\ pc[i] = "done"
      /\ outputs[i].site \in {"validation", "notObjects"}
      /\ outputs[i].iteratorOutputs = CFE
      /\ outputs[i].error.type = "string"
      /\ tasks[i] = << >>
      /\ pending[i] = 0

C7_Witness ==
  /\ pc[1] = "done"
  /\ outputs[1].site = "validation"
  /\ Len(batch[1]) = 3
  /\ ~ItemInvalid(batch[1][1]) /\ ~ItemInvalid(batch[1][2]) /\ ItemInvalid(batch[1][3])

\* C8: after the tasks, a Failed or Skipped outcome makes the output the
\* excluded sentinel with an error string and no array; otherwise the
\* output is the array of the outcomes in order
C8_BatchOutcome ==
  \A i \in Invs :
    Aggregated(i) =>
      IF \E j \in DOMAIN tasks[i] : IsFailed(tasks[i][j].out) \/ IsSkipped(tasks[i][j].out)
      THEN /\ outputs[i].iteratorOutputs = CFE
           /\ outputs[i].error.type = "string"
           /\ Len(outputs[i].error.value) >= 1
      ELSE /\ outputs[i].iteratorOutputs = [type |-> "object[]", value |-> IteratorOutputs(i)]
           /\ outputs[i].error = NoPort

C8_Witness ==
  /\ Aggregated(1)
  /\ outputs[1].iteratorOutputs = CFE
  /\ \E j, k \in DOMAIN tasks[1] : IsSuccess(tasks[1][j].out) /\ IsSkipped(tasks[1][k].out)
  /\ \A j \in DOMAIN tasks[1] : ~IsFailed(tasks[1][j].out)

\* C9: the batch outcome exists only when every task has produced its
\* outcome, one per item and at the item's position, abort or not
OneOutcome(i, j) ==
  LET o == tasks[i][j].out IN
  \/ IsSuccess(o) /\ o.outputs.of = ItemDataValue(batch[i][j])
  \/ IsSkipped(o)
  \/ IsFailed(o) /\ o.error.index = j - 1

C9_AllOutcomes ==
  \A i \in Invs :
    outputs[i].site \in {"batchError", "array"} =>
      /\ DOMAIN tasks[i] = DOMAIN batch[i]
      /\ \A j \in DOMAIN tasks[i] : tasks[i][j].pc = "done" /\ OneOutcome(i, j)

C9_Witness ==
  /\ Aggregated(1)
  /\ abortIteration[1]
  /\ Len(batch[1]) = 3
  /\ IsSuccess(tasks[1][1].out) /\ IsFailed(tasks[1][2].out) /\ IsSkipped(tasks[1][3].out)

(***************************************************************************)
(* Properties of repeated invocations                                      *)
(***************************************************************************)
\* C4: a second invocation with the cache, the same batch and the same
\* snapshot, after a first one in which every item succeeded, returns the
\* same outputs and invokes the subgraph for no item
C4_Idempotent ==
  ( /\ pc[1] = "done"
    /\ prev[1].set
    /\ hasCache[1]
    /\ node[1] = prev[1].node
    /\ batch[1] = prev[1].batch
    /\ snap[1] = prev[1].snap )
  => /\ outputs[1] = prev[1].outputs
     /\ \A j \in DOMAIN tasks[1] : ~tasks[1][j].invoked

\* C5: when the entry held another snapshot than the one the invocation
\* observed, the entry holds the observed snapshot and only keys written by
\* this invocation while its tasks run, and no task hits an older value
StoredKeys(i) == {CacheKey(batch[i][k]) : k \in {l \in DOMAIN tasks[i] : tasks[i][l].stored}}

C5_Invalidation ==
  \A i \in Invs :
    invalidated[i] =>
      /\ \A j \in DOMAIN tasks[i] : tasks[i][j].hit # "stale"
      /\ pc[i] = "await" =>
            /\ heap[ref[i]].graphSnapshot = snap[i]
            /\ DOMAIN heap[ref[i]].cache \subseteq StoredKeys(i)

C5_Witness ==
  /\ invalidated[1]
  /\ hasCache[1]
  /\ prev[1].set
  /\ \E j \in DOMAIN tasks[1] : \E k \in DOMAIN prev[1].batch :
       /\ CacheKey(batch[1][j]) = CacheKey(prev[1].batch[k])
       /\ tasks[1][j].invoked

(***************************************************************************)
(* Properties of the codec failures                                        *)
(***************************************************************************)
\* C10: a task whose stored value could not be decoded goes on as after a
\* miss: it invokes the subgraph and ends with the fresh result as Success,
\* never with a Failed outcome
C10_DecodeFailureIsMiss ==
  \A i \in Invs : \A j \in DOMAIN tasks[i] :
    tasks[i][j].hit = "undecodable" =>
      /\ ~IsFailed(tasks[i][j].out)
      /\ j \in Settled(i) => IsSuccess(tasks[i][j].out) /\ tasks[i][j].invoked

\* C11: a task whose result could not be encoded still ends with that result
\* as Success; only its store is left out and no Failed outcome appears
EncodeFailed(i, j) ==
  /\ hasCache[i]
  /\ j \in Settled(i)
  /\ tasks[i][j].res # NoResult
  /\ ~Serialisable(tasks[i][j].res)

C11_EncodeFailureKeepsResult ==
  \A i \in Invs : \A j \in DOMAIN tasks[i] :
    EncodeFailed(i, j) =>
      /\ tasks[i][j].out = tasks[i][j].res
      /\ ~tasks[i][j].stored
      /\ ~IsFailed(tasks[i][j].out)

\* a task that had not started stays queued or is skipped without a call of
\* the subgraph
StaysUnstarted(old, new) ==
  old.pc = "queued" =>
    \/ new.pc = "queued"
    \/ new.pc = "returned" /\ new.out = Skipped /\ ~new.invoked /\ new.hit = "none"

\* what a raised signal means for the tasks in one step of invocation i
SignalOnTasks(i) ==
  /\ (signalled[i] /\ DOMAIN tasks'[i] = DOMAIN tasks[i]) =>
       \A j \in DOMAIN tasks[i] : StaysUnstarted(tasks[i][j], tasks'[i][j])
  /\ (signalled[i] /\ pc[i] = "snap" /\ pc'[i] = "await") =>
       \A j \in DOMAIN tasks'[i] : StaysUnstarted(QueuedTask, tasks'[i][j])
  /\ (~signalled[i] /\ signalled'[i] /\ runs'[i] = runs[i]) =>
       tasks'[i] = tasks[i] /\ abortIteration'[i]

\* C12: once the caller's signal is raised, every task not yet started is
\* Skipped without a call of the subgraph, tasks in flight are left alone,
\* and the batch result is a batch error
C12_SignalEquivalent ==
  [][\A i \in Invs :
       /\ SignalOnTasks(i)
       /\ (signalled'[i] /\ Aggregated(i)') => outputs'[i].site = "batchError"]_vars

\* C12 (amended): once the caller's signal is raised, every task not yet
\* started is Skipped without a call of the subgraph and tasks in flight are
\* left alone; the batch result is a batch error when a task was skipped or
\* failed, and the ordered array when every task had started and succeeded
C12_SignalSkipsUnstarted ==
  [][\A i \in Invs :
       /\ SignalOnTasks(i)
       /\ (signalled'[i] /\ Aggregated(i)') =>
            LET outs == [j \in DOMAIN tasks'[i] |-> tasks'[i][j].out]
            IN IF \E j \in DOMAIN outs : IsSkipped(outs[j]) \/ IsFailed(outs[j])
               THEN outputs'[i].site = "batchError"
               ELSE /\ outputs'[i].site = "array"
                    /\ outputs'[i].iteratorOutputs.value = outs]_vars

C12_Witness ==
  /\ signalled[1] /\ Aggregated(1)
  /\ outputs[1].site = "batchError"
  /\ \E j, k \in DOMAIN tasks[1] :
       /\ IsSuccess(tasks[1][j].out) /\ tasks[1][j].invoked
       /\ IsSkipped(tasks[1][k].out)
  /\ \A j \in DOMAIN tasks[1] : ~IsFailed(tasks[1][j].out)

\* C13: the concurrency limit is the chunkSize port when it is connected and
\* data.chunkSize otherwise; a value of zero or less is replaced by 1, so the
\* limit the queue works with is at least 1
Requested(i) ==
  IF given[i].override # << >> THEN given[i].override[1] ELSE given[i].default

C13_ConcurrencyLimit ==
  \A i \in Invs : runs[i] > 0 =>
    /\ chunkSize[i] >= 1
    /\ Requested(i) >= 1 => chunkSize[i] = Requested(i)
    /\ Requested(i) <= 0 => chunkSize[i] = 1
    /\ Cardinality(Running(i)) <= chunkSize[i]

C13_Witness ==
  /\ given[1] = [override |-> <<0>>, default |-> 2]
  /\ chunkSize[1] = 1
  /\ Len(batch[1]) = 2
  /\ Cardinality(Running(1)) = 1 /\ Queued(1) # {}

\* C14: an entry built for a node without a stored one expires one hour, in
\* milliseconds, after it was built, and a sweep less than one hour after
\* that does not remove it
HourMs == 60 * 60 * 1000

C14_ExpiryOneHour ==
  /\ \A r \in Refs : heap[r] # NoEntry =>
       heap[r].expiryTimestamp = heap[r].createdAt + HourMs
  /\ \A i \in Invs : (Aggregated(i) /\ hasCache[i] /\ now < HourMs) =>
       storage[node[i]] # NoRef

\* C15: the abort flag of an invocation starts FALSE, becomes TRUE only when
\* a task fails or the caller's signal fires, and once TRUE stays TRUE for
\* the rest of the invocation, whatever sets it again
NewFailure(i) ==
  \E j \in DOMAIN tasks[i] :
    /\ j \in DOMAIN tasks'[i]
    /\ ~IsFailed(tasks[i][j].out)
    /\ IsFailed(tasks'[i][j].out)

NewSignal(i) == ~signalled[i] /\ signalled'[i]

C15_AbortLatch ==
  [][\A i \in Invs :
       IF runs'[i] # runs[i]
       THEN ~abortIteration'[i]
       ELSE /\ abortIteration[i] => abortIteration'[i]
            /\ (~abortIteration[i] /\ abortIteration'[i]) => NewFailure(i) \/ NewSignal(i)
            /\ (NewFailure(i) \/ NewSignal(i)) => abortIteration'[i]]_vars

C15_Witness ==
  /\ pc[1] = "done"
  /\ abortIteration[1] /\ signalled[1]
  /\ Cardinality({j \in DOMAIN tasks[1] : IsFailed(tasks[1][j].out)}) >= 2

\* C16: the error of a batch error has exactly one entry per Failed item,
\* labelled with that item's index in the batch and carrying its message;
\* Skipped items have no entry
FailedItems(i) == {j \in DOMAIN tasks[i] : IsFailed(tasks[i][j].out)}

C16_ErrorLabels ==
  \A i \in Invs : (Aggregated(i) /\ outputs[i].site = "batchError") =>
    LET entries == outputs[i].error.value
    IN /\ Len(entries) = Cardinality(FailedItems(i))
       /\ \A j \in FailedItems(i) : \E k \in DOMAIN entries :
            /\ entries[k].ItemIndex = j - 1
            /\ entries[k].message = tasks[i][j].out.error

\* C17: when every subgraph call settles and every ready continuation is
\* run, an invocation that passed validation ends with a batch result or a
\* batch error in which every item has an outcome and no task is left in the
\* queue, whatever the concurrency limit and whether or not the run aborts
C17_Terminates ==
  (pc[1] = "snap") ~>
    (/\ Aggregated(1)
     /\ Len(tasks[1]) = Len(batch[1])
     /\ \A j \in DOMAIN tasks[1] : tasks[1][j].pc = "done" /\ OneOutcome(1, j))

C17_Witness ==
  /\ Aggregated(1)
  /\ Len(batch[1]) = MaxBatch
  /\ chunkSize[1] = 2
  /\ abortIteration[1]
  /\ \E j \in DOMAIN tasks[1] : tasks[1][j].atFail = "queued"
  /\ \A j \in DOMAIN tasks[1] : tasks[1][j].pc = "done"

\* C18: two overlapping invocations of one node with the cache each commit
\* their entry once, after all their own tasks, and when both are over the
\* stored entry of the node is the one committed last
BothOver ==
  /\ Aggregated(1) /\ Aggregated(2)
  /\ hasCache[1] /\ hasCache[2]
  /\ node[1] = node[2]

C18_LastCommitWins ==
  /\ \A i \in Invs : IF pc[i] = "done" /\ hasCache[i] /\ Aggregated(i)
                      THEN commits[i] = 1 /\ AllSettled(tasks[i])
                      ELSE commits[i] = 0
  /\ BothOver =>
       /\ lastCommit[node[1]].ref # NoRef
       /\ storage[node[1]] = lastCommit[node[1]].ref

\* C19: two tasks of one invocation with the same cache key that both missed
\* at their lookup and both got a result from the subgraph both end as
\* Success with their own result, and the cache then holds for that key the
\* value of the later of the two writes
Racing(i, j, k) ==
  /\ j < k
  /\ hasCache[i]
  /\ CacheKey(batch[i][j]) = CacheKey(batch[i][k])
  /\ tasks[i][j].invoked /\ tasks[i][k].invoked
  /\ tasks[i][j].res # NoResult /\ tasks[i][k].res # NoResult
  /\ tasks[i][j].pc \in {"returned", "done"} /\ tasks[i][k].pc \in {"returned", "done"}

Later(i, j, k) == IF tasks[i][j].storedAt > tasks[i][k].storedAt THEN j ELSE k

C19_SameKeyRace ==
  \A i \in Invs : \A j, k \in DOMAIN tasks[i] :
    (pc[i] = "await" /\ Racing(i, j, k)) =>
      /\ tasks[i][j].out = tasks[i][j].res /\ IsSuccess(tasks[i][j].out)
      /\ tasks[i][k].out = tasks[i][k].res /\ IsSuccess(tasks[i][k].out)
      /\ tasks[i][j].stored /\ tasks[i][k].stored
      /\ LET cache == heap[ref[i]].cache
             key == CacheKey(batch[i][j])
         IN /\ key \in DOMAIN cache
            /\ \/ cache[key] = compressObject(tasks[i][Later(i, j, k)].res)
               \/ \E l \in DOMAIN tasks[i] :
                    /\ tasks[i][l].storedAt > tasks[i][Later(i, j, k)].storedAt
                    /\ CacheKey(batch[i][l]) = key

\* a step of invocation i while it runs with the cache disabled
DisabledStep(i) == ~hasCache[i] /\ pc[i] \in {"snap", "await"}

\* C20: an invocation with the cache disabled leaves the storage as it is:
\* no entry is added, removed or replaced, and the cache, snapshot and
\* expiry of every stored entry stay the same
C20_DisabledLeavesStorage ==
  [][\A i \in Invs : DisabledStep(i) =>
       /\ storage' = storage
       /\ \A n \in NodeIds : storage[n] # NoRef =>
            heap'[storage[n]] = heap[storage[n]]]_vars

\* C20 (amended): an invocation with the cache disabled adds, removes and
\* replaces no entry and leaves every stored entry as it is, except that the
\* stored entry of its own node, when its snapshot differs from the current
\* one, gets an empty cache and the current snapshot; its expiry is kept
C20_DisabledOnlyInvalidates ==
  [][\A i \in Invs : DisabledStep(i) =>
       /\ storage' = storage
       /\ \A n \in NodeIds : storage[n] # NoRef =>
            LET old == heap[storage[n]]
                new == heap'[storage[n]]
            IN \/ new = old
               \/ /\ n = node[i]
                  /\ old.graphSnapshot # snap[i]
                  /\ new.cache = EmptyMap
                  /\ new.graphSnapshot = snap[i]
                  /\ new.expiryTimestamp = old.expiryTimestamp]_vars

C20_Witness ==
  /\ Aggregated(1) /\ ~hasCache[1]
  /\ invalidated[1]
  /\ prev[1].set
  /\ storage[node[1]] # NoRef
  /\ heap[storage[node[1]]].cache = EmptyMap
  /\ heap[storage[node[1]]].graphSnapshot = snap[1]

\* C21: tasks start in input order, so the started tasks are always a prefix
\* of the batch; the Skipped outcomes are followed only by Skipped outcomes
\* or tasks still queued, and with a concurrency of 1 a Failed item has only
\* Success before it and only Skipped (or still queued) items after it
StartedTasks(i) == {j \in DOMAIN tasks[i] : tasks[i][j].pc # "queued"}

SkippedOrWaiting(i, l) ==
  IF Aggregated(i) THEN IsSkipped(tasks[i][l].out)
  ELSE tasks[i][l].pc = "queued" \/ IsSkipped(tasks[i][l].out)

C21_StartInOrder ==
  \A i \in Invs : \A j \in DOMAIN tasks[i] :
    /\ j \in StartedTasks(i) => \A l \in 1 .. j - 1 : l \in StartedTasks(i)
    /\ IsSkipped(tasks[i][j].out) =>
         /\ abortIteration[i]
         /\ \A l \in DOMAIN tasks[i] : l > j => SkippedOrWaiting(i, l)
    /\ (chunkSize[i] = 1 /\ IsFailed(tasks[i][j].out)) =>
         /\ \A l \in 1 .. j - 1 : IsSuccess(tasks[i][l].out)
         /\ \A l \in DOMAIN tasks[i] : l > j => SkippedOrWaiting(i, l)

C21_Witness ==
  /\ Aggregated(1) /\ chunkSize[1] = 1 /\ ~signalled[1]
  /\ Len(tasks[1]) = 3
  /\ IsSuccess(tasks[1][1].out)
  /\ IsFailed(tasks[1][2].out)
  /\ IsSkipped(tasks[1][3].out)
====
